---- MODULE Spec2Model ----
(***************************************************************************)
(* State-machine model of the TikTok live recorder:                        *)
(*   src/src/main.py            TikTokLiveRecorder.run (CLI checks)        *)
(*   src/src/core/tiktokbot.py  TikTok (resolution, liveness, recording,   *)
(*                              post-processing, manual/automatic modes)   *)
(* Python None is the string "None"; "" is the empty string.  Paths are    *)
(* sequences of string tokens so that suffix tests and replace() are       *)
(* computed, not assumed.                                                  *)
(***************************************************************************)
EXTENDS Integers, Sequences, FiniteSets, TLC

\* ------------------------------------------------------------------ bounds
\* Iterations of the automatic poll loop that are explored.
MaxIter == 2
\* Distinct wall-clock seconds time.strftime can return during a run.
MaxDate == 2
\* Chunks the body of the streamed response can deliver.
MaxChunks == 3
\* Seconds that can pass between two reads of the clock in the chunk loop.
MaxStep == 2

\* --------------------------------------------------------------- constants
None == "None"
MANUAL == "manual"
AUTOMATIC == "automatic"

\* utils.enums.TimeOut (minutes, and seconds per minute)
AUTOMATIC_MODE == 5
CONNECTION_CLOSED == 2
ONE_MINUTE == 60

\* utils.enums.StatusCode, by name
StatusCodes == {"OK", "REDIRECT", "MOVED"}

\* status_code reserved for a restricted live (get_live_url)
RESTRICTION_CODE == 4003110

\* Python truthiness of an optional string
Truthy(s) == s # None /\ s # ""

\* ------------------------------------------------------------------ inputs
UrlAlice == "https://www.tiktok.com/@alice/live"
UrlShort == "https://vm.tiktok.com/ZM1/"
UrlBad == "https://example.com/x"

Urls == {None, "", UrlAlice, UrlShort, UrlBad}
UserArgs == {None, "", "alice"}
RoomArgs == {None, "", "r1"}
ModeArgs == {"", MANUAL, AUTOMATIC, "other"}
NoDir == <<None>>
OutputDirs == {NoDir, <<"/tmp/rec">>}

\* re.match(str(Regex.IS_TIKTOK_LIVE), url) on the URLs above
IsTikTokLive(url) == url \in {UrlAlice, UrlShort}

\* re.match(r"https?://(?:www\.)?tiktok\.com/@([^/]+)/live", url): group(1),
\* or None when the URL does not match
UrlUser(url) == IF url = UrlAlice THEN "alice" ELSE None

\* Failures a GET can end in instead of a response
NetFail == {"none", "ConnectionAbortedError", "RequestError"}

\* No room-info response received (yet, or in this attempt)
NoInfo == [got |-> FALSE, private |-> FALSE, pull |-> None, status |-> 0]

NoExc == [type |-> "none", msg |-> ""]
Exc(t, m) == [type |-> t, msg |-> m]

VARIABLES
    args,         \* parsed command line (fixed for the run)
    pc,           \* position of the single thread of control
    exc,          \* exception caught by the automatic loop, being handled
    err,          \* exception caught and logged by TikTokLiveRecorder.run
    exitStatus,   \* process exit status once the process is gone
    cookies,      \* whether read_cookies has run
    user,         \* TikTok.user
    room_id,      \* TikTok.room_id
    httpclient,   \* TikTok.httpclient: "caller" (proxy-configured) or "own"
    net,          \* requests issued so far: [req, via]
    iter,         \* automatic-loop iterations started
    roomIter,     \* iteration in which room_id was last assigned (0: ctor)
    liveTag,      \* roomIter of the room id the last liveness check used
    urlTag,       \* roomIter of the room id the last pull-URL fetch used
    recTag,       \* roomIter of the room id behind the last recording's URL
    lastExc,      \* exception that ended the iteration before the loop top
    slept,        \* seconds its handler slept
    live_url,     \* start_recording's live_url
    output_path,  \* start_recording's output_path
    now,          \* wall clock, in seconds, as strftime sees it
    files,        \* paths that exist on disk
    recCount,     \* recording-strategy invocations so far
    recOutcome,   \* how the recording strategy of this attempt ended
    finished,     \* the FINISH line of this attempt was logged
    prompted,     \* the operator was asked about conversion in this attempt
    convOutcome,  \* how convertion_mp4 of this attempt ended
    wrote,        \* the strategy of this attempt created its file
    probed,       \* what the region probe of __init__ found
    aliveResp,    \* response the last liveness check received
    aliveRes,     \* what the last is_user_in_live call did
    chunks,       \* chunks record_with_stream wrote to its file
    elapsed,      \* seconds since start_time at the last step of the loop
    info,         \* room-info response get_live_url received and judged
    urlUses,      \* strategy invocations made with the current live_url
    answer,       \* what the operator typed at the conversion prompt
    os_name       \* os.name of the host

ctl == <<pc, exc, err, exitStatus>>
ident == <<user, room_id>>
tags == <<roomIter, liveTag, urlTag, recTag>>
loopv == <<iter, lastExc, slept>>
stream == <<chunks, elapsed>>
rec == <<live_url, output_path, now, files, recCount, recOutcome, finished,
         prompted, convOutcome, wrote, stream>>
live == <<aliveResp, aliveRes>>
vars == <<args, ctl, cookies, ident, httpclient, net, tags, loopv, rec,
          probed, live, info, urlUses,
          answer, os_name>>

\* ----------------------------------------------------------- control flow
Goto(p) == pc' = p /\ UNCHANGED <<exc, err, exitStatus>>

\* The try body of run_automatic_mode (tiktokbot.py:68-74)
LoopPcs == {"auto_resolve", "auto_alive", "live_url", "record", "stream",
            "post", "prompt", "convert"}
\* The try statement of the loop entered only after the room-id resolution
InLoop_ResolveOutside ==
    args.mode = AUTOMATIC /\ pc \in LoopPcs \ {"auto_resolve"}

InLoop == args.mode = AUTOMATIC /\ pc \in LoopPcs

\* Where a raised exception lands.  SystemExit and KeyboardInterrupt are not
\* Exception subclasses: no handler of the program catches them once they
\* leave start_recording.  Inside the poll loop every Exception reaches one
\* of its three handlers; elsewhere TikTokLiveRecorder.run logs it.
Raise(e) ==
    IF e.type = "SystemExit"
    THEN pc' = "exited" /\ exitStatus' = 1 /\ UNCHANGED <<exc, err>>
    ELSE IF e.type = "KeyboardInterrupt"
    THEN pc' = "killed" /\ exitStatus' = 130 /\ UNCHANGED <<exc, err>>
    ELSE IF InLoop
    THEN pc' = "auto_except" /\ exc' = e /\ UNCHANGED <<err, exitStatus>>
    ELSE pc' = "done" /\ err' = e /\ exitStatus' = 0 /\ UNCHANGED exc

\* The proxy each client was built with: the caller's with the -proxy value
\* (main.py:173), the constructor's own with None (tiktokbot.py:54)
ClientProxy(client) ==
    CASE client = "caller" -> "args.proxy"
      [] client = "own" -> None

Sent(req) == net' = net \cup {[req |-> req, via |-> httpclient]}

Init ==
    /\ args \in [url : Urls, user : UserArgs, room_id : RoomArgs,
                 mode : ModeArgs, ffmpeg : BOOLEAN, auto_convert : BOOLEAN,
                 duration : {0, 2}, output : OutputDirs]
    /\ pc = "main"
    /\ exc = NoExc
    /\ err = NoExc
    /\ exitStatus = -1
    /\ cookies = FALSE
    /\ user = None
    /\ room_id = None
    /\ httpclient = "none"
    /\ net = {}
    /\ iter = 0
    /\ roomIter = 0
    /\ liveTag = -1
    /\ urlTag = -1
    /\ recTag = -1
    /\ lastExc = NoExc
    /\ slept = 0
    /\ live_url = None
    /\ output_path = <<>>
    /\ now = 1
    /\ files = {}
    /\ recCount = 0
    /\ recOutcome = "none"
    /\ finished = FALSE
    /\ prompted = FALSE
    /\ convOutcome = "none"
    /\ wrote = FALSE
    /\ probed = "none"
    /\ aliveResp = [hasData |-> FALSE, list |-> <<>>]
    /\ aliveRes = "none"
    /\ chunks = 0
    /\ elapsed = 0
    /\ info = NoInfo
    /\ urlUses = 0
    /\ answer = None
    /\ os_name = "posix"

\* ------------------------------------------------------------- main.py
\* ArgsCheck without the room-id-and-URL check of main.py:152
ArgsCheck_NoRoomUrlCheck(a) ==
    IF ~Truthy(a.user) /\ ~Truthy(a.room_id) /\ ~Truthy(a.url)
    THEN Exc("ArgsParseError", "missing identifier")
    ELSE IF a.mode = ""
    THEN Exc("ArgsParseError", "missing mode")
    ELSE IF a.mode \notin {MANUAL, AUTOMATIC}
    THEN Exc("ArgsParseError", "incorrect mode")
    ELSE IF Truthy(a.url) /\ ~IsTikTokLive(a.url)
    THEN Exc("LiveNotFound", "invalid url")
    ELSE IF Truthy(a.user) /\ Truthy(a.room_id)
    THEN Exc("ArgsParseError", "user and room id")
    ELSE IF Truthy(a.user) /\ Truthy(a.url)
    THEN Exc("ArgsParseError", "user and url")
    ELSE IF ~a.ffmpeg /\ a.mode = AUTOMATIC
    THEN Exc("ArgsParseError", "automatic needs ffmpeg")
    ELSE NoExc

\* The argument checks of TikTokLiveRecorder.run, in source order: the
\* exception the first failing check raises, or NoExc.
ArgsCheck(a) ==
    IF ~Truthy(a.user) /\ ~Truthy(a.room_id) /\ ~Truthy(a.url)
    THEN Exc("ArgsParseError", "missing identifier")
    ELSE IF a.mode = ""
    THEN Exc("ArgsParseError", "missing mode")
    ELSE IF a.mode \notin {MANUAL, AUTOMATIC}
    THEN Exc("ArgsParseError", "incorrect mode")
    ELSE IF Truthy(a.url) /\ ~IsTikTokLive(a.url)
    THEN Exc("LiveNotFound", "invalid url")
    ELSE IF Truthy(a.user) /\ Truthy(a.room_id)
    THEN Exc("ArgsParseError", "user and room id")
    ELSE IF Truthy(a.user) /\ Truthy(a.url)
    THEN Exc("ArgsParseError", "user and url")
    ELSE IF Truthy(a.room_id) /\ Truthy(a.url)
    THEN Exc("ArgsParseError", "room id and url")
    ELSE IF ~a.ffmpeg /\ a.mode = AUTOMATIC
    THEN Exc("ArgsParseError", "automatic needs ffmpeg")
    ELSE NoExc

\* main.py:137-167
MainRun ==
    /\ pc = "main"
    /\ IF ArgsCheck(args) # NoExc
       THEN Raise(ArgsCheck(args))
       ELSE Goto("cookies")
    /\ UNCHANGED <<args, os_name, answer, info, urlUses, probed, live,
                   cookies, ident, httpclient, net, tags, loopv, rec>>

\* main.py:170-183 and tiktokbot.py:20-33: cookies are read, the caller's
\* client is built and the constructor stores its arguments.
ReadCookies ==
    /\ pc = "cookies"
    /\ cookies' = TRUE
    /\ user' = args.user
    /\ room_id' = args.room_id
    /\ httpclient' = "caller"
    /\ Goto("probe")
    /\ UNCHANGED <<args, os_name, answer, info, urlUses, probed, live, net,
                   tags, loopv, rec>>

\* ------------------------------------------------ tiktokbot.py: resolution
\* Response of the user's live page, as get_room_id_from_user reads it.
RoomIds == {"r2"}
RoomPages == [waf : BOOLEAN, sigi : BOOLEAN, liveRoom : BOOLEAN,
              currentRoom : BOOLEAN, roomId : {None, ""} \cup RoomIds]

Ret(v) == [exc |-> NoExc, val |-> v]
Throw(e) == [exc |-> e, val |-> None]

\* tiktokbot.py:191-209, on a received page
GetRoomIdFromUser(page) ==
    IF page.waf
    THEN Throw(Exc("IPBlockedByWAF", ""))
    ELSE IF ~page.sigi
    THEN Throw(Exc("ValueError", "Error extracting roomId"))
    ELSE IF ~page.liveRoom /\ page.currentRoom
    THEN Ret("")
    ELSE LET rid == IF page.liveRoom THEN page.roomId ELSE None
         IN  IF rid = None
             THEN Throw(Exc("ValueError", "RoomId not found."))
             ELSE Ret(rid)

\* tiktokbot.py:211-219, on a received uniqueId (None when absent)
UniqueIds == {None, "", "bob"}
\* get_user_from_room_id rejecting only an absent uniqueId
GetUserFromRoomId_NoneOnly(unique_id) ==
    IF unique_id = None
    THEN Throw(Exc("AttributeError", "USERNAME_ERROR"))
    ELSE Ret(unique_id)

GetUserFromRoomId(unique_id) ==
    IF ~Truthy(unique_id)
    THEN Throw(Exc("AttributeError", "USERNAME_ERROR"))
    ELSE Ret(unique_id)

\* Usernames re.findall("com/@(.*?)/live", content) can give first; None
\* stands for no match at all.
BodyUsers == {None, "", "bob"}

\* tiktokbot.py:173-187, on a received response: the username the URL step
\* leaves in self.user, or the exception it raises.
UserFromUrl(status, bodyUser, url, old) ==
    IF status = "REDIRECT"
    THEN Throw(Exc("CountryBlacklisted", "Redirect"))
    ELSE IF status = "MOVED" /\ bodyUser = None
    THEN Throw(Exc("LiveNotFound", "LIVE_NOT_FOUND"))
    ELSE LET u1 == IF status = "MOVED" THEN bodyUser ELSE old
         IN  Ret(IF UrlUser(url) # None THEN UrlUser(url) ELSE u1)

\* The result kept in a local instead of self.room_id
StoreRoom_Local(val, it) == UNCHANGED <<room_id, roomIter>>

\* self.room_id = <result of get_room_id_from_user> (tiktokbot.py:46, 69,
\* 189), in iteration `it` of the poll loop (0: the constructor)
StoreRoom(val, it) == room_id' = val /\ roomIter' = it

\* One call of get_room_id_from_user whose result is assigned to
\* self.room_id; control goes to `next` when it returns.
AssignRoomId(next, it) ==
    \E fail \in NetFail, page \in RoomPages :
        /\ Sent("room_from_user")
        /\ IF fail # "none"
           THEN Raise(Exc(fail, "")) /\ UNCHANGED <<room_id, roomIter>>
           ELSE LET r == GetRoomIdFromUser(page)
                IN  IF r.exc # NoExc
                    THEN Raise(r.exc) /\ UNCHANGED <<room_id, roomIter>>
                    ELSE StoreRoom(r.val, it) /\ Goto(next)

\* The block raised whatever room id was supplied
BlacklistCheck_IgnoresRoom(blocked, rid, mode) ==
    IF blocked THEN Exc("CountryBlacklisted", "BLACKLIST_ERROR") ELSE NoExc

\* What __init__ does with the probe's answer (tiktokbot.py:35-39)
BlacklistCheck(blocked, rid, mode) ==
    IF blocked /\ rid = None
    THEN Exc("CountryBlacklisted", "BLACKLIST_ERROR")
    ELSE IF blocked /\ mode = AUTOMATIC
    THEN Exc("ValueError", "AUTOMATIC_MODE_ERROR")
    ELSE NoExc

\* tiktokbot.py:221-223
IsCountryBlacklisted(status) == status = "REDIRECT"

\* tiktokbot.py:35-39
Probe ==
    /\ pc = "probe"
    /\ \E fail \in NetFail, status \in StatusCodes :
        /\ Sent("probe")
        /\ probed' = IF fail # "none" THEN "failed"
                     ELSE IF IsCountryBlacklisted(status) THEN "blocked"
                     ELSE "clear"
        /\ IF fail # "none"
           THEN Raise(Exc(fail, ""))
           ELSE LET e == BlacklistCheck(IsCountryBlacklisted(status),
                                        args.room_id, args.mode)
                IN  IF e # NoExc THEN Raise(e) ELSE Goto("from_url")
    /\ UNCHANGED <<args, os_name, answer, info, urlUses, live, cookies, ident,
                   httpclient, tags, loopv, rec>>

\* tiktokbot.py:41-42 with 173-187: the request to the URL
UrlFetch ==
    /\ pc = "from_url"
    /\ IF ~Truthy(args.url)
       THEN Goto("user_from_room") /\ UNCHANGED <<user, net>>
       ELSE \E fail \in NetFail, status \in StatusCodes, b \in BodyUsers :
            /\ Sent("url")
            /\ IF fail # "none"
               THEN Raise(Exc(fail, "")) /\ UNCHANGED user
               ELSE LET r == UserFromUrl(status, b, args.url, user)
                    IN  IF r.exc # NoExc
                        THEN Raise(r.exc) /\ UNCHANGED user
                        ELSE user' = r.val /\ Goto("url_room")
    /\ UNCHANGED <<args, os_name, answer, info, urlUses, probed, live,
                   cookies, room_id, httpclient, tags, loopv, rec>>

\* tiktokbot.py:189
UrlRoom ==
    /\ pc = "url_room"
    /\ AssignRoomId("user_from_room", 0)
    /\ UNCHANGED <<args, os_name, answer, info, urlUses, probed, live,
                   cookies, user, httpclient, liveTag, urlTag, recTag, loopv,
                   rec>>

\* tiktokbot.py:43-44
UserFromRoom ==
    /\ pc = "user_from_room"
    /\ IF Truthy(user)
       THEN Goto("room_from_user") /\ UNCHANGED <<user, net>>
       ELSE \E fail \in NetFail, uid \in UniqueIds :
            /\ Sent("user_from_room")
            /\ IF fail # "none"
               THEN Raise(Exc(fail, "")) /\ UNCHANGED user
               ELSE LET r == GetUserFromRoomId(uid)
                    IN  IF r.exc # NoExc
                        THEN Raise(r.exc) /\ UNCHANGED user
                        ELSE user' = r.val /\ Goto("room_from_user")
    /\ UNCHANGED <<args, os_name, answer, info, urlUses, probed, live,
                   cookies, room_id, httpclient, tags, loopv, rec>>

\* tiktokbot.py:45-46
RoomFromUser ==
    /\ pc = "room_from_user"
    /\ IF Truthy(room_id)
       THEN Goto("ctor_end") /\ UNCHANGED <<room_id, roomIter, net>>
       ELSE AssignRoomId("ctor_end", 0)
    /\ UNCHANGED <<args, os_name, answer, info, urlUses, probed, live,
                   cookies, user, httpclient, liveTag, urlTag, recTag, loopv,
                   rec>>

\* The constructor ending without line 54: the caller's client is kept
CtorEnd_KeepsClient ==
    /\ pc = "ctor_end"
    /\ Goto("run")
    /\ UNCHANGED <<args, os_name, answer, info, urlUses, probed, live,
                   cookies, ident, httpclient, net, tags, loopv, rec>>

\* tiktokbot.py:48-54: the constructor ends by replacing the client
CtorEnd ==
    /\ pc = "ctor_end"
    /\ httpclient' = "own"
    /\ Goto("run")
    /\ UNCHANGED <<args, os_name, answer, info, urlUses, probed, live,
                   cookies, ident, net, tags, loopv, rec>>

\* ------------------------------------------------- tiktokbot.py: liveness
\* The check_alive response: whether it has a 'data' key, the list under it,
\* and for each element whether it has an 'alive' key and its value.
AliveElems == [hasAlive : BOOLEAN, alive : BOOLEAN]
AliveResponses ==
    {[hasData |-> FALSE, list |-> <<>>]}
        \cup {[hasData |-> TRUE, list |-> l] :
                 l \in {<<>>} \cup {<<e>> : e \in AliveElems}}

\* tiktokbot.py:170: data.get('data', [{}])[0].get('alive', False)
IsUserInLive(resp) ==
    LET l == IF resp.hasData
             THEN resp.list
             ELSE <<[hasAlive |-> FALSE, alive |-> FALSE]>>
    IN  IF Len(l) = 0
        THEN Throw(Exc("IndexError", "list index out of range"))
        ELSE Ret(IF l[1].hasAlive THEN l[1].alive ELSE FALSE)

\* One liveness check of self.room_id, as run() and run_automatic_mode()
\* use it: a false answer is the not-currently-live error.
CheckAlive(next) ==
    \E fail \in NetFail, resp \in AliveResponses :
        /\ Sent("alive")
        /\ liveTag' = roomIter
        /\ aliveResp' = resp
        /\ IF fail # "none"
           THEN Raise(Exc(fail, "")) /\ aliveRes' = "failed"
           ELSE LET r == IsUserInLive(resp)
                IN  IF r.exc # NoExc
                    THEN Raise(r.exc) /\ aliveRes' = r.exc.type
                    ELSE IF ~r.val
                    THEN /\ Raise(Exc("UserNotLiveException",
                                      "USER_NOT_CURRENTLY_LIVE"))
                         /\ aliveRes' = "false"
                    ELSE Goto(next) /\ aliveRes' = "true"

\* run() in manual mode without the empty-room-id check
RunManual_NoRoomCheck ==
    /\ pc = "run"
    /\ args.mode = MANUAL
    /\ Goto("manual_alive")
    /\ UNCHANGED <<args, os_name, answer, info, urlUses, probed, live,
                   cookies, ident, httpclient, net, tags, loopv, rec>>

\* tiktokbot.py:57-59
RunManual ==
    /\ pc = "run"
    /\ args.mode = MANUAL
    /\ IF ~Truthy(room_id)
       THEN Raise(Exc("UserNotLiveException", "USER_NEVER_BEEN_LIVE"))
       ELSE Goto("manual_alive")
    /\ UNCHANGED <<args, os_name, answer, info, urlUses, probed, live,
                   cookies, ident, httpclient, net, tags, loopv, rec>>

\* tiktokbot.py:60-61
ManualAlive ==
    /\ pc = "manual_alive"
    /\ CheckAlive("live_url")
    /\ UNCHANGED <<args, os_name, answer, info, urlUses, probed, cookies,
                   ident, httpclient, roomIter, urlTag, recTag, loopv, rec>>

\* tiktokbot.py:63-67
RunAutomatic ==
    /\ pc = "run"
    /\ args.mode = AUTOMATIC
    /\ Goto("auto_resolve")
    /\ UNCHANGED <<args, os_name, answer, info, urlUses, probed, live,
                   cookies, ident, httpclient, net, tags, loopv, rec>>

\* tiktokbot.py:69-71.  A new iteration starts a new attempt: the locals
\* of the previous start_recording are gone and the attempt's record is
\* cleared.
AutoResolve ==
    /\ pc = "auto_resolve"
    /\ iter < MaxIter
    /\ iter' = iter + 1
    /\ \E fail \in NetFail, page \in RoomPages :
        /\ Sent("room_from_user")
        /\ IF fail # "none"
           THEN Raise(Exc(fail, "")) /\ UNCHANGED <<room_id, roomIter>>
           ELSE LET r == GetRoomIdFromUser(page)
                IN  IF r.exc # NoExc
                    THEN Raise(r.exc) /\ UNCHANGED <<room_id, roomIter>>
                    ELSE /\ StoreRoom(r.val, iter + 1)
                         /\ IF ~Truthy(room_id')
                            THEN Raise(Exc("UserNotLiveException",
                                           "USER_NEVER_BEEN_LIVE"))
                            ELSE Goto("auto_alive")
    /\ live_url' = None
    /\ output_path' = <<>>
    /\ recOutcome' = "none"
    /\ finished' = FALSE
    /\ prompted' = FALSE
    /\ convOutcome' = "none"
    /\ wrote' = FALSE
    /\ aliveResp' = [hasData |-> FALSE, list |-> <<>>]
    /\ aliveRes' = "none"
    /\ info' = NoInfo
    /\ urlUses' = 0
    /\ answer' = None
    /\ liveTag' = -1
    /\ urlTag' = -1
    /\ recTag' = -1
    /\ lastExc' = NoExc
    /\ slept' = 0
    /\ UNCHANGED <<args, os_name, probed, cookies, user, httpclient, now,
                   files, recCount, stream>>

\* tiktokbot.py:72-73
AutoAlive ==
    /\ pc = "auto_alive"
    /\ CheckAlive("live_url")
    /\ UNCHANGED <<args, os_name, answer, info, urlUses, probed, cookies,
                   ident, httpclient, roomIter, urlTag, recTag, loopv, rec>>

\* tiktokbot.py:75-78
HandleUserNotLive ==
    /\ pc = "auto_except"
    /\ exc.type = "UserNotLiveException"
    /\ lastExc' = exc
    /\ slept' = AUTOMATIC_MODE * ONE_MINUTE
    /\ exc' = NoExc
    /\ pc' = "auto_resolve"
    /\ info' = NoInfo
    /\ UNCHANGED <<args, os_name, answer, urlUses, probed, live, err,
                   exitStatus, cookies, ident, httpclient, net, tags, iter,
                   rec>>

\* tiktokbot.py:79-81
HandleConnectionAborted ==
    /\ pc = "auto_except"
    /\ exc.type # "UserNotLiveException"
    /\ exc.type = "ConnectionAbortedError"
    /\ lastExc' = exc
    /\ slept' = CONNECTION_CLOSED * ONE_MINUTE
    /\ exc' = NoExc
    /\ pc' = "auto_resolve"
    /\ info' = NoInfo
    /\ UNCHANGED <<args, os_name, answer, urlUses, probed, live, err,
                   exitStatus, cookies, ident, httpclient, net, tags, iter,
                   rec>>

\* The catch-all clause tried before the two specific ones
HandleOther_CatchAll ==
    /\ pc = "auto_except"
    /\ lastExc' = exc
    /\ slept' = 0
    /\ exc' = NoExc
    /\ pc' = "auto_resolve"
    /\ info' = NoInfo
    /\ UNCHANGED <<args, os_name, answer, urlUses, probed, live, err,
                   exitStatus, cookies, ident, httpclient, net, tags, iter,
                   rec>>

\* tiktokbot.py:82-83
HandleOther ==
    /\ pc = "auto_except"
    /\ exc.type \notin {"UserNotLiveException", "ConnectionAbortedError"}
    /\ lastExc' = exc
    /\ slept' = 0
    /\ exc' = NoExc
    /\ pc' = "auto_resolve"
    /\ info' = NoInfo
    /\ UNCHANGED <<args, os_name, answer, urlUses, probed, live, err,
                   exitStatus, cookies, ident, httpclient, net, tags, iter,
                   rec>>

\* -------------------------------------------- tiktokbot.py: start_recording
\* The room-info response: the private-account marker, the rtmp_pull_url
\* (None when a key on the way to it is absent) and the status_code.
LiveUrls == {None, "", "rtmp://pull/u1"}
InfoResponses == [private : BOOLEAN, pull : LiveUrls,
                  status : {0, RESTRICTION_CODE}]

\* get_live_url testing the restriction code before the private marker
GetLiveUrl_RestrictionFirst(resp) ==
    IF resp.pull = None /\ resp.status = RESTRICTION_CODE
    THEN Throw(Exc("LiveRestriction", ""))
    ELSE IF resp.private
    THEN Throw(Exc("AccountPrivate", ""))
    ELSE Ret(resp.pull)

\* tiktokbot.py:151-164, on a received response
GetLiveUrl(resp) ==
    IF resp.private
    THEN Throw(Exc("AccountPrivate", ""))
    ELSE IF resp.pull = None /\ resp.status = RESTRICTION_CODE
    THEN Throw(Exc("LiveRestriction", ""))
    ELSE Ret(resp.pull)

\* time.strftime("%Y.%m.%d_%H-%M-%S") of the d-th second of the run
DateStr(d) ==
    <<"2024.01.01_00-00-01", "2024.01.01_00-00-02", "2024.01.01_00-00-03",
      "2024.01.01_00-00-04">>[d]

\* tiktokbot.py:129: the separator appended for the host's os.name
PathSep == IF os_name = "nt" THEN "\\" ELSE "/"

\* Only the forward slash taken for a trailing separator
EndsWithSep_SlashOnly(dir) == Len(dir) > 0 /\ dir[Len(dir)] = "/"

\* str.endswith('/') or str.endswith('\\') on a tokenised directory
EndsWithSep(dir) == Len(dir) > 0 /\ dir[Len(dir)] \in {"/", "\\"}

\* tiktokbot.py:126-130
PrepareOutputPath(output, username, current_date) ==
    LET given == output # NoDir /\ output # <<>>
        dir == IF given /\ ~EndsWithSep(output)
               THEN output \o <<PathSep>>
               ELSE output
    IN  (IF given THEN dir ELSE <<>>)
            \o <<"TK_", username, "_", current_date, "_flv.mp4">>

\* str.replace('_flv.mp4', '.mp4') on a tokenised path: every occurrence
ReplaceFlv(path) ==
    [i \in 1..Len(path) |-> IF path[i] = "_flv.mp4" THEN ".mp4" ELSE path[i]]

\* tiktokbot.py:95-97
FetchLiveUrl ==
    /\ pc = "live_url"
    /\ \E fail \in NetFail, resp \in InfoResponses :
        /\ Sent("live_url")
        /\ urlTag' = roomIter
        /\ urlUses' = 0
        /\ info' = IF fail # "none" THEN NoInfo
                   ELSE [got |-> TRUE, private |-> resp.private,
                         pull |-> resp.pull, status |-> resp.status]
        /\ IF fail # "none"
           THEN Raise(Exc(fail, "")) /\ UNCHANGED live_url
           ELSE LET r == GetLiveUrl(resp)
                IN  IF r.exc # NoExc
                    THEN Raise(r.exc) /\ UNCHANGED live_url
                    ELSE /\ live_url' = r.val
                         /\ IF ~Truthy(r.val)
                            THEN Raise(Exc("LiveNotFound", "URL_NOT_FOUND"))
                            ELSE Goto("record")
    /\ UNCHANGED <<args, os_name, answer, probed, live, cookies, ident,
                   httpclient, roomIter, liveTag, recTag, loopv, output_path,
                   now, files, recCount, recOutcome, finished, prompted,
                   convOutcome, wrote, stream>>

\* How ffmpeg.run can end in record_with_ffmpeg (tiktokbot.py:132-139)
FfmpegEnds == {"completed", "ffmpeg_error", "missing_tool", "interrupted"}

\* How record_with_stream can end (tiktokbot.py:141-149): the GET fails, the
\* open fails, the body ends or the duration is reached, the download
\* breaks after the file was opened, or the operator interrupts it.
StreamEnds == {"completed", "get_failed", "open_failed", "read_failed",
               "interrupted", "duration_reached"}

\* The ends record_with_stream can come to before its chunk loop
\* (tiktokbot.py:143-145); "opened" enters the loop.
StreamOpenEnds == {"opened", "get_failed", "open_failed", "interrupted"}

\* The ends the chunk loop can come to other than by its break: the body is
\* exhausted, the connection breaks, the operator interrupts.
StreamLoopEnds == {"completed", "read_failed", "interrupted"}

\* Exceptions open() raises on an output path that cannot be created
OpenErrs == {"FileNotFoundError", "NotADirectoryError", "PermissionError"}

\* The exception a strategy raises for each way it can end: the failure of
\* the GET or of the body read is whatever the client raised.
StrategyErrs(end) ==
    CASE end = "missing_tool" -> {Exc("FileNotFoundError", "")}
      [] end = "open_failed" -> {Exc(t, "") : t \in OpenErrs}
      [] end \in {"get_failed", "read_failed"} ->
             {Exc(t, "") : t \in NetFail \ {"none"}}
      [] end = "ffmpeg_error" -> {Exc("FfmpegError", "")}
      [] end = "interrupted" -> {Exc("KeyboardInterrupt", "")}
      [] OTHER -> {NoExc}

\* The missing tool logged without sys.exit
RecordingRaises_MissingToolLogged(e) ==
    CASE e.type \in {"FfmpegError", "FileNotFoundError",
                     "KeyboardInterrupt"} -> NoExc
      [] OTHER -> e

\* The try statement without its KeyboardInterrupt clause
RecordingRaises_InterruptPropagates(e) ==
    CASE e.type = "FfmpegError" -> NoExc
      [] e.type = "FileNotFoundError" -> Exc("SystemExit", "1")
      [] OTHER -> e

\* The try statement of start_recording (tiktokbot.py:104-116): what leaves
\* it when the strategy raised e.  ffmpeg.Error is logged, FileNotFoundError
\* ends in sys.exit(1), KeyboardInterrupt is passed over; any other
\* exception has no clause and leaves unchanged.
RecordingRaises(e) ==
    CASE e.type = "FfmpegError" -> NoExc
      [] e.type = "FileNotFoundError" -> Exc("SystemExit", "1")
      [] e.type = "KeyboardInterrupt" -> NoExc
      [] OTHER -> e

\* The file the strategy writes, given the constructed output path
FfmpegTarget(output) == ReplaceFlv(output)
StreamTarget(output) == output

\* tiktokbot.py:99-116, up to the chunk loop of the direct-stream strategy:
\* the managed-process strategy runs to its end, the direct-stream strategy
\* sends its GET and opens (creates or truncates) its file.
Record ==
    /\ pc = "record"
    /\ \E d \in now..MaxDate,
          end \in (IF args.ffmpeg THEN FfmpegEnds ELSE StreamOpenEnds),
          partial \in BOOLEAN :
      \E e \in StrategyErrs(end) :
        LET path == PrepareOutputPath(args.output, user, DateStr(d))
            target == IF args.ffmpeg THEN FfmpegTarget(path)
                      ELSE StreamTarget(path)
            written ==
                CASE end \in {"missing_tool", "get_failed", "open_failed"}
                         -> FALSE
                  [] end \in {"completed", "opened"} -> TRUE
                  [] OTHER -> args.ffmpeg /\ partial
        IN  /\ now' = d
            /\ output_path' = path
            /\ recCount' = recCount + 1
            /\ recTag' = urlTag
            /\ urlUses' = urlUses + 1
            /\ recOutcome' = IF end = "opened" THEN "none" ELSE end
            /\ wrote' = written
            /\ files' = IF written THEN files \cup {target} ELSE files
            /\ chunks' = 0
            /\ elapsed' = 0
            /\ net' = IF args.ffmpeg THEN net
                      ELSE net \cup {[req |-> "stream", via |-> httpclient]}
            /\ IF end = "opened"
               THEN Goto("stream")
               ELSE IF RecordingRaises(e) # NoExc
               THEN Raise(RecordingRaises(e))
               ELSE Goto("post")
    /\ info' = NoInfo
    /\ UNCHANGED <<args, os_name, answer, probed, live, cookies, ident,
                   httpclient, roomIter, liveTag, urlTag, loopv, live_url,
                   finished, prompted, convOutcome>>

\* The break test with a strict comparison
DurationReached_Strict(duration, seen) == duration # 0 /\ seen > duration

\* tiktokbot.py:148: self.duration and (time.time() - start_time) >=
\* self.duration
DurationReached(duration, seen) == duration # 0 /\ seen >= duration

\* tiktokbot.py:146-149: one chunk is read and written, then the clock is
\* read when a duration is set; the break ends the recording.
StreamChunk ==
    /\ pc = "stream"
    /\ chunks < MaxChunks
    /\ chunks' = chunks + 1
    /\ \E dt \in 0..MaxStep :
        /\ elapsed' = elapsed + dt
        /\ IF DurationReached(args.duration, elapsed')
           THEN recOutcome' = "duration_reached" /\ Goto("post")
           ELSE recOutcome' = "none" /\ Goto("stream")
    /\ UNCHANGED <<args, os_name, answer, info, urlUses, probed, live,
                   cookies, ident, httpclient, net, tags, loopv, live_url,
                   output_path, now, files, recCount, finished, prompted,
                   convOutcome, wrote>>

\* tiktokbot.py:146 with 104-116: some time after the last chunk the loop
\* ends without the break
StreamStop ==
    /\ pc = "stream"
    /\ \E end \in StreamLoopEnds, dt \in 0..MaxStep :
      \E e \in StrategyErrs(end) :
        /\ recOutcome' = end
        /\ elapsed' = elapsed + dt
        /\ IF RecordingRaises(e) # NoExc
           THEN Raise(RecordingRaises(e))
           ELSE Goto("post")
    /\ UNCHANGED <<args, os_name, answer, info, urlUses, probed, live,
                   cookies, ident, httpclient, net, tags, loopv, live_url,
                   output_path, now, files, recCount, finished, prompted,
                   convOutcome, wrote, chunks>>

\* How the external tool can end in convertion_mp4
ToolEnds == {"ok", "error", "missing"}

\* convertion_mp4 removing the raw file in a finally clause
ConvertionMp4_AlwaysRemoves(file, tool, fs) ==
    CASE tool = "ok" ->
             [files |-> (fs \cup {ReplaceFlv(file)}) \ {file}, exc |-> NoExc]
      [] tool = "error" ->
             [files |-> fs \ {file}, exc |-> Exc("FfmpegError", "")]
      [] OTHER -> [files |-> fs \ {file}, exc |-> NoExc]

\* tiktokbot.py:85-92: the files afterwards and the exception that leaves
\* convertion_mp4.  The tool succeeds only on an input that exists.
ConvertionMp4(file, tool, fs) ==
    CASE tool = "ok" ->
             [files |-> (fs \cup {ReplaceFlv(file)}) \ {file}, exc |-> NoExc]
      [] tool = "error" ->
             [files |-> fs, exc |-> Exc("FfmpegError", "")]
      [] OTHER -> [files |-> fs, exc |-> NoExc]

\* tiktokbot.py:120-124: whether the operator is asked, and whether
\* convertion_mp4 is called given the answer
AsksOperator(use_ffmpeg, convert) == ~use_ffmpeg /\ ~convert

\* Lines the operator may type at the prompt, and str.lower on them
Answers == {"y", "Y", "n", "yes"}
Lower(s) == CASE s = "Y" -> "y" [] OTHER -> s

\* The prompt's answer compared without lowering it
Converts_CaseSensitive(use_ffmpeg, convert, typed) ==
    IF ~use_ffmpeg /\ ~convert THEN typed = "y" ELSE convert

Converts(use_ffmpeg, convert, typed) ==
    IF ~use_ffmpeg /\ ~convert THEN Lower(typed) = "y" ELSE convert

\* run_automatic_mode returning once start_recording has returned
Return_LeavesLoop ==
    /\ pc' = "done"
    /\ exitStatus' = 0
    /\ UNCHANGED <<exc, err, lastExc, slept>>

\* start_recording returning into its own recording step
Return_RecordsAgain ==
    IF args.mode = AUTOMATIC
    THEN /\ pc' = "record"
         /\ lastExc' = NoExc
         /\ slept' = 0
         /\ UNCHANGED <<exc, err, exitStatus>>
    ELSE /\ pc' = "done"
         /\ exitStatus' = 0
         /\ UNCHANGED <<exc, err, lastExc, slept>>

\* Return from start_recording: run() returns in manual mode, the loop
\* body ends without an exception in automatic mode.
Return ==
    IF args.mode = AUTOMATIC
    THEN /\ pc' = "auto_resolve"
         /\ lastExc' = NoExc
         /\ slept' = 0
         /\ UNCHANGED <<exc, err, exitStatus>>
    ELSE /\ pc' = "done"
         /\ exitStatus' = 0
         /\ UNCHANGED <<exc, err, lastExc, slept>>

\* tiktokbot.py:118-120 and 123: the FINISH line is logged and the flags
\* decide whether the operator is asked, the conversion starts, or
\* start_recording returns.
PostProcess ==
    /\ pc = "post"
    /\ finished' = TRUE
    /\ prompted' = AsksOperator(args.ffmpeg, args.auto_convert)
    /\ IF AsksOperator(args.ffmpeg, args.auto_convert)
       THEN Goto("prompt") /\ UNCHANGED <<lastExc, slept>>
       ELSE IF Converts(args.ffmpeg, args.auto_convert, None)
       THEN Goto("convert") /\ UNCHANGED <<lastExc, slept>>
       ELSE Return
    /\ chunks' = 0
    /\ elapsed' = 0
    /\ UNCHANGED <<args, os_name, answer, info, urlUses, probed, live,
                   cookies, ident, httpclient, net, tags, iter, live_url,
                   output_path, now, files, recCount, recOutcome,
                   convOutcome, wrote>>

\* tiktokbot.py:121: input() returns the line the operator typed
Prompt ==
    /\ pc = "prompt"
    /\ \E typed \in Answers :
        /\ answer' = typed
        /\ IF Converts(args.ffmpeg, args.auto_convert, typed)
           THEN Goto("convert") /\ UNCHANGED <<lastExc, slept>>
           ELSE Return
    /\ UNCHANGED <<args, os_name, info, urlUses, probed, live, cookies,
                   ident, httpclient, net, tags, iter, rec>>

\* tiktokbot.py:122 and 124 with 85-92: convertion_mp4 runs to its end
Convert ==
    /\ pc = "convert"
    /\ \E tool \in ToolEnds :
        /\ tool = "ok" => output_path \in files
        /\ LET c == ConvertionMp4(output_path, tool, files)
           IN  /\ convOutcome' = tool
               /\ files' = c.files
               /\ IF c.exc # NoExc
                  THEN Raise(c.exc) /\ UNCHANGED <<lastExc, slept>>
                  ELSE Return
    /\ UNCHANGED <<args, os_name, answer, info, urlUses, probed, live,
                   cookies, ident, httpclient, net, tags, iter, live_url,
                   output_path, now, recCount, recOutcome, finished,
                   prompted, wrote, stream>>

Next ==
    \/ MainRun
    \/ ReadCookies
    \/ Probe
    \/ UrlFetch
    \/ UrlRoom
    \/ UserFromRoom
    \/ RoomFromUser
    \/ CtorEnd
    \/ RunManual
    \/ ManualAlive
    \/ RunAutomatic
    \/ AutoResolve
    \/ AutoAlive
    \/ FetchLiveUrl
    \/ Record
    \/ StreamChunk
    \/ StreamStop
    \/ PostProcess
    \/ Prompt
    \/ Convert
    \/ HandleUserNotLive
    \/ HandleConnectionAborted
    \/ HandleOther

Spec == Init /\ [][Next]_vars

\* Spec has the operator interrupt the program only while a recording
\* strategy runs (Record, StreamStop), inside the try statement of
\* start_recording (tiktokbot.py:104-116).  SpecInt adds the interrupt
\* delivered anywhere else, which no statement of the program catches.  At
\* "record" it arrives in lines 99-102, before the try statement is entered.
InterruptiblePcs ==
    {"main", "cookies", "probe", "from_url", "url_room", "user_from_room",
     "room_from_user", "ctor_end", "run", "manual_alive", "auto_resolve",
     "auto_alive", "live_url", "record", "post", "prompt", "auto_except"}

Interrupt ==
    /\ pc \in InterruptiblePcs
    /\ Raise(Exc("KeyboardInterrupt", ""))
    /\ UNCHANGED <<args, os_name, answer, info, urlUses, probed, live,
                   cookies, ident, httpclient, net, tags, loopv, rec>>

\* The interrupt delivered while convertion_mp4 runs the tool
\* (tiktokbot.py:88): os.remove is not reached, the tool may have begun the
\* sibling file of an input that exists.
InterruptConvert ==
    /\ pc = "convert"
    /\ convOutcome' = "interrupted"
    /\ \E partial \in BOOLEAN :
        files' = IF partial /\ output_path \in files
                 THEN files \cup {ReplaceFlv(output_path)}
                 ELSE files
    /\ Raise(Exc("KeyboardInterrupt", ""))
    /\ UNCHANGED <<args, os_name, answer, info, urlUses, probed, live,
                   cookies, ident, httpclient, net, tags, loopv, live_url,
                   output_path, now, recCount, recOutcome, finished,
                   prompted, wrote, stream>>

NextInt == Next \/ Interrupt \/ InterruptConvert

SpecInt == Init /\ [][NextInt]_vars

\* ------------------------------------------------------------------ claims
HasReq(r) == \E q \in net : q.req = r
Constructed == httpclient = "own"
NeverLive == Exc("UserNotLiveException", "USER_NEVER_BEEN_LIVE")
NotCurrentlyLive == Exc("UserNotLiveException", "USER_NOT_CURRENTLY_LIVE")

\* C1: in manual mode run() records at most once and then ends; an empty
\* room id gives the never-live error with no liveness check and no
\* recording; a false liveness answer gives the not-currently-live error
\* with no recording; a recording happens only with a non-empty room id and
\* a true liveness answer.
C1_ManualRecordsAtMostOnce ==
    args.mode = MANUAL =>
        /\ recCount <= 1
        /\ (Constructed /\ pc # "run" /\ ~Truthy(room_id)) =>
               /\ pc = "done" /\ err = NeverLive
               /\ ~HasReq("alive") /\ ~HasReq("live_url") /\ recCount = 0
        /\ aliveRes = "false" =>
               /\ pc = "done" /\ err = NotCurrentlyLive
               /\ ~HasReq("live_url") /\ recCount = 0
        /\ pc \in {"live_url", "record"} =>
               Truthy(room_id) /\ aliveRes = "true" /\ recCount = 0
        /\ recCount = 1 =>
               /\ Truthy(room_id) /\ aliveRes = "true"
               /\ pc \in {"stream", "post", "prompt", "convert", "done",
                         "exited"}

C1_Witness ==
    /\ args.mode = MANUAL /\ pc = "done" /\ err = NoExc
    /\ recCount = 1 /\ recOutcome = "completed" /\ finished

\* C2: when the poll loop is back at its top after an iteration that ended
\* in an exception, the handler slept the recheck interval for a never-live
\* or not-currently-live error, the shorter connection-closed interval for
\* an aborted connection, and not at all for any other error.
C2_SleepFollowsClass ==
    (pc = "auto_resolve" /\ lastExc # NoExc) =>
        /\ lastExc \in {NeverLive, NotCurrentlyLive} =>
               slept = AUTOMATIC_MODE * ONE_MINUTE
        /\ lastExc.type = "ConnectionAbortedError" =>
               /\ slept = CONNECTION_CLOSED * ONE_MINUTE
               /\ 0 < slept /\ slept < AUTOMATIC_MODE * ONE_MINUTE
        /\ lastExc.type \notin {"UserNotLiveException",
                                "ConnectionAbortedError"} => slept = 0

C2_Witness ==
    /\ pc = "auto_resolve" /\ iter = 2
    /\ lastExc.type = "ConnectionAbortedError"
    /\ slept = CONNECTION_CLOSED * ONE_MINUTE

\* C3: in automatic mode the liveness check, the pull-URL fetch and the
\* recording of an iteration use the room id that the same iteration
\* resolved and stored.
C3_RoomIdOfSameIteration ==
    args.mode = AUTOMATIC =>
        /\ pc \in {"auto_alive", "live_url", "record", "post"} =>
               roomIter = iter /\ iter >= 1
        /\ pc \in {"live_url", "record", "post"} => liveTag = iter
        /\ pc \in {"record", "post"} => urlTag = iter
        /\ pc = "post" => recTag = iter

C3_Witness ==
    /\ args.mode = AUTOMATIC /\ pc = "post" /\ iter = 2
    /\ recTag = 2 /\ Truthy(args.room_id)

\* C4: with more than one of url, username and room id given, the run ends
\* in an input error and no request was sent and no cookies were read.
NonEmptyIdentifiers(a) ==
    (IF Truthy(a.url) THEN 1 ELSE 0) + (IF Truthy(a.user) THEN 1 ELSE 0)
        + (IF Truthy(a.room_id) THEN 1 ELSE 0)

C4_AmbiguousInputFailsOffline ==
    NonEmptyIdentifiers(args) > 1 =>
        /\ pc \in {"main", "done"}
        /\ pc = "done" => err.type \in {"ArgsParseError", "LiveNotFound"}
        /\ net = {}
        /\ ~cookies

C4_Witness ==
    /\ Truthy(args.room_id) /\ Truthy(args.url) /\ ~Truthy(args.user)
    /\ IsTikTokLive(args.url) /\ args.mode = MANUAL
    /\ pc = "done" /\ err.type = "ArgsParseError"

\* C5: after a probe that reports a redirect, construction fails with the
\* region-blocked error before any resolution request when no room id was
\* given, fails with the automatic-mode configuration error when a room id
\* was given in automatic mode, and goes on into resolution without either
\* error when a room id was given in manual mode.
BlockError == Exc("CountryBlacklisted", "BLACKLIST_ERROR")
AutomaticBlockError == Exc("ValueError", "AUTOMATIC_MODE_ERROR")

C5_RegionBlockOutcome ==
    probed = "blocked" =>
        /\ args.room_id = None =>
               /\ pc = "done" /\ err = BlockError
               /\ \A q \in net : q.req = "probe"
        /\ (args.room_id # None /\ args.mode = AUTOMATIC) =>
               /\ pc = "done" /\ err = AutomaticBlockError
               /\ \A q \in net : q.req = "probe"
        /\ (args.room_id # None /\ args.mode = MANUAL) =>
               /\ pc # "probe"
               /\ err \notin {BlockError, AutomaticBlockError}

C5_Witness ==
    /\ probed = "blocked" /\ args.room_id = "r1" /\ args.mode = MANUAL
    /\ Constructed /\ pc = "run"

\* C6: is_user_in_live returns false, and does not raise, on every response
\* that carries no alive flag: no result collection, an empty one, or a
\* first element without the flag.
NoAliveFlag(resp) ==
    \/ ~resp.hasData
    \/ Len(resp.list) = 0
    \/ ~resp.list[1].hasAlive

C6_NoAliveFlagIsFalse ==
    (aliveRes \notin {"none", "failed"} /\ NoAliveFlag(aliveResp)) =>
        aliveRes = "false"

\* C7: whenever construction completes, the stored username is non-empty.
C7_ResolvedUserNonEmpty == Constructed => Truthy(user)

C7_Witness ==
    /\ args.url = UrlShort /\ Constructed
    /\ HasReq("url") /\ HasReq("user_from_room") /\ user = "bob"

\* C8: a missing tool during recording ends the process with a non-zero
\* status in both modes; a missing tool during post-processing raises
\* nothing and the run goes on (manual: run() returns normally; automatic:
\* the loop is at its top with no exception to handle).
C8_MissingToolFatalOnlyWhenRecording ==
    /\ recOutcome = "missing_tool" =>
           pc = "exited" /\ exitStatus = 1 /\ exitStatus # 0 /\ ~finished
    /\ convOutcome = "missing" =>
           /\ exc = NoExc /\ err = NoExc
           /\ args.mode = MANUAL => pc = "done" /\ exitStatus = 0
           /\ args.mode = AUTOMATIC => pc = "auto_resolve" /\ lastExc = NoExc

C8_Witness ==
    /\ args.mode = AUTOMATIC /\ recOutcome = "missing_tool"
    /\ pc = "exited" /\ iter = 2

\* C9: post-processing a raw file ending in _flv.mp4 writes the sibling
\* path without the marker, and the raw file is gone afterwards exactly
\* when the tool succeeded (or it never existed); on a tool failure or a
\* missing tool the files are as before.
SiblingWithoutMarker(path) == SubSeq(path, 1, Len(path) - 1) \o <<".mp4">>

C9_RawRemovedIffToolSucceeded ==
    [][(pc = "convert" /\ convOutcome' # "none") =>
           /\ output_path[Len(output_path)] = "_flv.mp4"
           /\ (output_path \notin files') <=>
                  (convOutcome' = "ok" \/ output_path \notin files)
           /\ convOutcome' = "ok" =>
                  SiblingWithoutMarker(output_path) \in files'
           /\ convOutcome' # "ok" => files' = files]_vars

C9_Witness ==
    /\ convOutcome = "ok" /\ recOutcome = "completed"
    /\ output_path \notin files
    /\ SiblingWithoutMarker(output_path) \in files

\* C10: an interrupt during the recording strategy leaves start_recording
\* by no exception: control is at the finish log, the file the strategy
\* wrote is still there, and the post-processing decision is the one the
\* flags give.
C10_InterruptIsCleanStop ==
    recOutcome = "interrupted" =>
        /\ pc \notin {"killed", "exited"}
        /\ ~finished =>
               /\ pc = "post" /\ exc = NoExc /\ err = NoExc
               /\ wrote => (IF args.ffmpeg THEN FfmpegTarget(output_path)
                            ELSE StreamTarget(output_path)) \in files
        /\ finished =>
               /\ prompted = (~args.ffmpeg /\ ~args.auto_convert)
               /\ convOutcome # "none" => (args.auto_convert \/ prompted)

C10_Witness ==
    /\ recOutcome = "interrupted" /\ wrote /\ ~args.ffmpeg
    /\ finished /\ pc = "done" /\ err = NoExc
    /\ output_path \in files

\* C11 (as stated): a direct-stream recording with a positive duration limit
\* that has returned ran for at least the limit and wrote at least one
\* chunk to a file that exists.
C11_ReturnsOnlyAfterLimit ==
    (~args.ffmpeg /\ args.duration > 0 /\ pc = "post"
         /\ recOutcome \in {"completed", "duration_reached"}) =>
        /\ elapsed >= args.duration
        /\ chunks > 0
        /\ output_path \in files

\* C11 (amended): with a positive duration limit the chunk loop goes on
\* only while the elapsed time read after the last write is below the
\* limit; a recording ended by the limit ran for at least the limit and
\* wrote at least one chunk; a recording ended by the limit or by the end
\* of the body leaves its file in place.
C11_StopsAtLimitOrBodyEnd ==
    (~args.ffmpeg /\ args.duration > 0) =>
        /\ (pc = "stream" /\ chunks > 0) => elapsed < args.duration
        /\ (pc = "post" /\ recOutcome = "duration_reached") =>
               elapsed >= args.duration /\ chunks >= 1
        /\ (pc = "post"
                /\ recOutcome \in {"completed", "duration_reached"}) =>
               StreamTarget(output_path) \in files

C11_Witness ==
    /\ ~args.ffmpeg /\ args.duration = 2 /\ pc = "post"
    /\ recOutcome = "duration_reached" /\ chunks = 2 /\ elapsed = 3
    /\ output_path \in files

\* C12: a received room-info response is classified in order: the private
\* marker gives AccountPrivate; otherwise no pull URL with the restriction
\* code gives LiveRestriction; otherwise no pull URL gives the
\* URL-not-found error; in each case the attempt ends there, with no
\* recording strategy invoked and no file created.
Landed == IF args.mode = AUTOMATIC THEN exc ELSE err

C12_PullUrlClassification ==
    [][(pc = "live_url" /\ info'.got) =>
           /\ info'.private => Landed'.type = "AccountPrivate"
           /\ (~info'.private /\ info'.pull = None
                   /\ info'.status = RESTRICTION_CODE) =>
                  Landed'.type = "LiveRestriction"
           /\ (~info'.private /\ info'.pull = None
                   /\ info'.status # RESTRICTION_CODE) =>
                  Landed' = Exc("LiveNotFound", "URL_NOT_FOUND")
           /\ (info'.private \/ info'.pull = None) =>
                  /\ pc' \in {"done", "auto_except"}
                  /\ recCount' = recCount
                  /\ files' = files]_vars

C12_Witness ==
    /\ pc = "auto_except" /\ exc.type = "LiveRestriction"
    /\ info.got /\ ~info.private /\ info.pull = None
    /\ recOutcome = "none" /\ iter = 2

\* C13: a recording strategy is invoked only after the liveness check
\* returned true for the current room id and a non-empty pull URL was then
\* obtained for it; a pull URL serves one recording only, the next recording
\* needs a new liveness check and a new pull-URL fetch.
C13_RecordingNeedsFreshLiveUrl ==
    [][recCount' # recCount =>
           /\ pc = "record"
           /\ Truthy(room_id)
           /\ aliveRes = "true" /\ liveTag = roomIter
           /\ info.got /\ urlTag = roomIter
           /\ Truthy(live_url) /\ live_url = info.pull
           /\ urlUses = 0 /\ urlUses' = 1]_vars

C13_Witness ==
    /\ args.mode = AUTOMATIC /\ pc = "post"
    /\ recCount = 2 /\ urlUses = 1 /\ iter = 2
    /\ recTag = 2 /\ aliveRes = "true" /\ Truthy(live_url)

\* C14: after a recording ends, conversion is invoked iff auto-convert is
\* configured, or the managed-process strategy is not in use and the
\* operator answers yes (Y or y of the [Y/N] prompt); with the
\* managed-process strategy and auto-convert off there is neither a prompt
\* nor a conversion.
AnswersYes == answer \in {"y", "Y"}

ConversionInvoked == pc = "convert" \/ convOutcome # "none"

C14_PostProcessingIffConfiguredOrConfirmed ==
    /\ pc = "prompt" =>
           /\ finished /\ prompted /\ ~ConversionInvoked
           /\ ~args.ffmpeg /\ ~args.auto_convert
    /\ pc = "convert" => finished
    /\ (finished /\ pc # "prompt") =>
           /\ ConversionInvoked <=>
                  (args.auto_convert \/ (~args.ffmpeg /\ AnswersYes))
           /\ (args.ffmpeg /\ ~args.auto_convert) =>
                  (~prompted /\ answer = None /\ ~ConversionInvoked)
           /\ prompted <=> answer # None

C14_Witness ==
    /\ finished /\ ~args.ffmpeg /\ ~args.auto_convert
    /\ prompted /\ answer = "Y" /\ convOutcome = "ok"
    /\ ReplaceFlv(output_path) \in files /\ output_path \notin files

(***************************************************************************)
(* prepare_output_path on its own: the function applied to directories,   *)
(* user names, dates and hosts drawn from small sets.                      *)
(***************************************************************************)
PathDirs ==
    {NoDir, <<>>, <<"/tmp/rec">>, <<"/tmp/rec", "/">>, <<"/">>,
     <<"C:", "\\", "rec">>, <<"C:", "\\", "rec", "\\">>, <<"rec", "/", "a">>}
PathUsers == {"alice", "bob", "a_b"}
OsNames == {"posix", "nt"}

InitPath ==
    /\ args \in [url : {None}, user : {"alice"}, room_id : {None},
                 mode : {MANUAL}, ffmpeg : {FALSE}, auto_convert : {FALSE},
                 duration : {0}, output : PathDirs]
    /\ pc = "path"
    /\ user \in PathUsers
    /\ now \in 1..MaxDate
    /\ os_name \in OsNames
    /\ exc = NoExc
    /\ err = NoExc
    /\ exitStatus = -1
    /\ cookies = FALSE
    /\ room_id = None
    /\ httpclient = "none"
    /\ net = {}
    /\ iter = 0
    /\ roomIter = 0
    /\ liveTag = -1
    /\ urlTag = -1
    /\ recTag = -1
    /\ lastExc = NoExc
    /\ slept = 0
    /\ live_url = None
    /\ output_path = <<>>
    /\ files = {}
    /\ recCount = 0
    /\ recOutcome = "none"
    /\ finished = FALSE
    /\ prompted = FALSE
    /\ convOutcome = "none"
    /\ wrote = FALSE
    /\ probed = "none"
    /\ aliveResp = [hasData |-> FALSE, list |-> <<>>]
    /\ aliveRes = "none"
    /\ chunks = 0
    /\ elapsed = 0
    /\ info = NoInfo
    /\ urlUses = 0
    /\ answer = None

\* tiktokbot.py:126-130 applied to self.output, self.user and current_date
PathApply ==
    /\ pc = "path"
    /\ output_path' = PrepareOutputPath(args.output, user, DateStr(now))
    /\ pc' = "path_done"
    /\ UNCHANGED <<args, os_name, exc, err, exitStatus, cookies, ident,
                   httpclient, net, tags, loopv, live_url, now, files,
                   recCount, recOutcome, finished, prompted, convOutcome,
                   wrote, stream, probed, live, info, urlUses, answer>>

NextPath == PathApply

SpecPath == InitPath /\ [][NextPath]_vars

\* C15: prepare_output_path returns the directory, then one separator when
\* the directory is non-empty and does not end in '/' or '\', then
\* TK_<username>_<timestamp>_flv.mp4; a directory already ending in a
\* separator gets none added, and an empty or absent directory gives the
\* file name alone.
FileName == <<"TK_", user, "_", DateStr(now), "_flv.mp4">>
HostSep == IF os_name = "nt" THEN "\\" ELSE "/"
DirGiven == args.output # NoDir /\ args.output # <<>>
DirEndsInSep == args.output[Len(args.output)] \in {"/", "\\"}

C15_OutputPathShape ==
    pc = "path_done" =>
        LET dir == args.output
            n == Len(output_path)
        IN  /\ n >= 5 /\ SubSeq(output_path, n - 4, n) = FileName
            /\ ~DirGiven => output_path = FileName
            /\ (DirGiven /\ DirEndsInSep) => output_path = dir \o FileName
            /\ (DirGiven /\ ~DirEndsInSep) =>
                   /\ n = Len(dir) + 6
                   /\ SubSeq(output_path, 1, Len(dir)) = dir
                   /\ output_path[Len(dir) + 1] = HostSep

C15_Witness ==
    /\ pc = "path_done" /\ os_name = "nt"
    /\ args.output = <<"C:", "\\", "rec">> /\ user = "bob"
    /\ output_path = <<"C:", "\\", "rec", "\\", "TK_", "bob", "_",
                       DateStr(now), "_flv.mp4">>

\* C16: after a recording that failed with a tool-reported runtime error,
\* post-processing is not invoked for that attempt: neither the conversion
\* nor the interactive conversion prompt.
C16_ToolErrorSkipsPostProcessing ==
    recOutcome = "ffmpeg_error" => (convOutcome = "none" /\ ~prompted)

\* C17: for both strategies the file a recording writes is the constructed
\* output path with its _flv marker, so the path handed to post-processing
\* names the file the recording produced.
C17_RecordingWritesOutputPath ==
    (pc = "post" /\ wrote) => output_path \in files

\* C18 as stated: in automatic mode a room-id or username extraction failure
\* never ends the run, wherever it occurs; in manual mode it does.
ExtractionErrs ==
    {Exc("ValueError", "Error extracting roomId"),
     Exc("ValueError", "RoomId not found."),
     Exc("AttributeError", "USERNAME_ERROR")}

C18_ExtractionNeverEndsAutomaticRun ==
    /\ args.mode = AUTOMATIC => err \notin ExtractionErrs
    /\ (args.mode = MANUAL /\ err \in ExtractionErrs) => pc = "done"

\* C18: an extraction failure ends the run, in either mode, exactly when it
\* occurs during construction; in automatic mode one that occurs in the poll
\* loop is logged, not slept on, and the loop starts its next iteration.
C18_ExtractionFatalOnlyInConstruction ==
    /\ err \in ExtractionErrs =>
           pc = "done" /\ ~Constructed /\ iter = 0 /\ recCount = 0
    /\ (args.mode = AUTOMATIC /\ Constructed) =>
           pc \notin {"done"} /\ err = NoExc
    /\ (pc = "auto_except" /\ exc \in ExtractionErrs) =>
           args.mode = AUTOMATIC /\ iter >= 1
    /\ (pc = "auto_resolve" /\ lastExc \in ExtractionErrs) =>
           args.mode = AUTOMATIC /\ iter >= 1 /\ slept = 0

C18_Witness ==
    /\ args.mode = AUTOMATIC /\ pc = "auto_resolve" /\ iter = 2
    /\ lastExc = Exc("ValueError", "RoomId not found.")
    /\ slept = 0 /\ err = NoExc

\* C19: in automatic mode an interrupt delivered while a recording strategy
\* runs ends only that recording: control goes on to post-processing inside
\* the loop, and from there to the loop's next iteration, which resolves the
\* room id again; the loop is left only by the process exit of the
\* missing-tool clause or by an interrupt delivered outside the recording
\* step.
InRecording == pc \in {"record", "stream"}
LoopOrHandler == LoopPcs \cup {"auto_except"}

C19_InterruptEndsOnlyTheRecording ==
    [][(args.mode = AUTOMATIC /\ pc \in LoopOrHandler) =>
           /\ (InRecording /\ recOutcome' = "interrupted") =>
                  pc' = "post" /\ exc' = NoExc /\ iter' = iter
           /\ (pc \in {"post", "prompt", "convert"} /\ pc' # "killed") =>
                  pc' \in {"prompt", "convert", "auto_resolve",
                           "auto_except"}
           /\ (pc = "auto_except" /\ pc' # "killed") => pc' = "auto_resolve"
           /\ (pc = "auto_resolve" /\ pc' # "killed") =>
                  /\ iter' = iter + 1
                  /\ [req |-> "room_from_user", via |-> "own"] \in net'
                  /\ pc' = "auto_alive" => roomIter' = iter'
           /\ \/ pc' \in LoopOrHandler
              \/ /\ pc' = "exited" /\ InRecording
                 /\ recOutcome' \in {"missing_tool", "open_failed"}
              \/ /\ pc' = "killed" /\ pc # "stream"
                 /\ recCount' = recCount /\ recOutcome' = recOutcome]_vars

C19_Witness ==
    /\ args.mode = AUTOMATIC /\ pc = "auto_resolve" /\ iter = 1
    /\ recOutcome = "interrupted" /\ finished /\ recCount = 1
    /\ lastExc = NoExc /\ exitStatus = -1

\* C20: the requests issued during construction (region probe, identity
\* resolution) go through the client the caller passed in, built with the
\* -proxy value; every request issued by run() afterwards (room-id
\* resolution of an iteration, liveness check, pull-URL fetch, direct-stream
\* download) goes through the client the constructor built with no proxy.
CtorPcs == {"probe", "from_url", "url_room", "user_from_room",
            "room_from_user"}
CtorReqs == {"probe", "url", "room_from_user", "user_from_room"}
RunReqs == {"room_from_user", "alive", "live_url", "stream"}

C20_ProxyOnlyDuringConstruction ==
    [][\A q \in net' \ net :
           IF pc \in CtorPcs
           THEN /\ q.req \in CtorReqs
                /\ q.via = "caller" /\ ClientProxy(q.via) = "args.proxy"
           ELSE /\ pc \in {"manual_alive", "auto_resolve", "auto_alive",
                           "live_url", "record"}
                /\ q.req \in RunReqs
                /\ q.via = "own" /\ ClientProxy(q.via) = None]_vars

C20_Witness ==
    /\ [req |-> "probe", via |-> "caller"] \in net
    /\ [req |-> "room_from_user", via |-> "caller"] \in net
    /\ [req |-> "alive", via |-> "own"] \in net
    /\ [req |-> "live_url", via |-> "own"] \in net
    /\ [req |-> "stream", via |-> "own"] \in net
    /\ pc = "post"

====
